---- MODULE Spec2Model ----
(***************************************************************************)
(* A model of the PumpDev example clients: the build / sign / submit       *)
(* workflows (buy-sell.js, transfer.js, claim-fees.js, create-token.js,    *)
(* sniper-bot.js), the Jito bundle submitter, the WebSocket listener and   *)
(* the claim scheduler.                                                    *)
(*                                                                         *)
(* Every async function is modelled by its continuations: an activation    *)
(* is suspended at one await, and one action is "the awaited call settles  *)
(* with some outcome, and the code runs synchronously up to the next       *)
(* await (or to its return / throw)".  The remote services (PumpDev API,   *)
(* RPC node, Jito relays, WebSocket server) are the environment: their     *)
(* answers are chosen nondeterministically.                                *)
(***************************************************************************)
EXTENDS Integers, Sequences, FiniteSets, TLC

VARIABLES
    flow,       \* the workflow function main() runs in this behaviour
    procs,      \* activations of the single-transaction workflows
    sent,       \* every message handed to fetch / the RPC connection / ws.send
    entries,    \* looped flows: the list the loop runs over (recipients, or
                \* the transactions list of the API's answer)
    loop,       \* looped flows: position, outcome and locals of the function
    inflight,   \* looped flows: the network calls issued and not yet settled
    attempted,  \* looped flows: entries whose try block (sign and send) was entered
    visited,    \* looped flows: entries whose loop body has started, in order
    failed,     \* looped flows: entries in which an awaited step failed
    create,     \* create flows: position, outcome and error of the function
    txs,        \* create flows: result.transactions, each the list of its
                \* declared signer roles
    signedTxs,  \* create flows: the signed transactions, in the order built
    jito,       \* sendJitoBundle: endpoint being tried, endpoints contacted, result
    ws,         \* WebSocket listener: socket state, configuration, control
                \* messages sent, frames received
    dispatch,   \* WebSocket listener: the last frame handled, what its handler
                \* displayed, whether its catch logged an error
    sched,      \* claim scheduler: automatedClaiming's position, the clock, the
                \* interval timer, the number of claimFees() invocations
    main,       \* the script's main(): whether its catch logged, the exit status
    bot         \* sniper bot: socket state, clock, activeBuys, lastBuyTime, the
                \* create events that led to executeBuy

(***************************************************************************)
(* Values that can appear in an outbound payload.                          *)
(***************************************************************************)

\* Keypair.fromSecretKey(bs58.decode(KEY)): one keypair per configured key.
\* A key is named by its role and, for the accounts of a bundle sell, its place
\* in the accounts list.
Key(role, n) == <<role, n>>
WalletKey == Key("wallet", 0)

\* The secret half of a keypair (keypair.secretKey): never put in a payload
\* by the code; defined so that payloads can be checked against it.
SecretKey(k) == [kind |-> "secretKey", key |-> k]

\* keypair.publicKey.toBase58()
SecretKeyBase58(k) == SecretKey(k)
PublicKeyBase58(k) == [kind |-> "publicKey", key |-> k]

\* A plain request parameter (mint, amount, slippage, priorityFee, ...).
Param(name, n) == [kind |-> "param", key |-> <<name, n>>]

\* tx.serialize() of a transaction after tx.sign(signers): the message bytes
\* and the signatures, not the keys that made them.
SignedTx(t, n) == [kind |-> "signedTx", key |-> <<t, n>>]

Message(to, what, payload) == [to |-> to, what |-> what, payload |-> payload]

\* The process: main() still running or returned, whether its catch logged,
\* and the exit status once the process has ended.
NotExited == -1

NewMain == [pc |-> "running", logged |-> FALSE, exit |-> NotExited]

(***************************************************************************)
(* Single-transaction workflows: build one transaction through the API,    *)
(* sign it locally, send it through the RPC connection.                    *)
(***************************************************************************)

SingleFlows ==
    {"buyToken", "sellToken", "transferSol", "transferAllSol",
     "claimFees", "distributeFees"}

\* What distinguishes the seven functions: the build endpoint, whether the
\* balance is read first (outside any try), how the confirmation is awaited,
\* whether the balance is read again, and whether the whole body sits in a
\* try/catch (executeBuy only).
BuyTokenCfg ==
    [key |-> WalletKey, endpoint |-> "/api/trade-local", pre |-> FALSE,
     confirm |-> "checked", post |-> FALSE, guarded |-> FALSE]
SellTokenCfg ==
    [key |-> WalletKey, endpoint |-> "/api/trade-local", pre |-> FALSE,
     confirm |-> "none", post |-> FALSE, guarded |-> FALSE]
TransferSolCfg ==
    [key |-> WalletKey, endpoint |-> "/api/transfer", pre |-> FALSE,
     confirm |-> "plain", post |-> FALSE, guarded |-> FALSE]
TransferAllSolCfg ==
    [key |-> WalletKey, endpoint |-> "/api/transfer-all", pre |-> TRUE,
     confirm |-> "plain", post |-> TRUE, guarded |-> FALSE]
ClaimFeesCfg ==
    [key |-> WalletKey, endpoint |-> "/api/claim-account", pre |-> TRUE,
     confirm |-> "plain", post |-> TRUE, guarded |-> FALSE]
DistributeFeesCfg ==
    [key |-> WalletKey, endpoint |-> "/api/claim-distribute", pre |-> FALSE,
     confirm |-> "plain", post |-> FALSE, guarded |-> FALSE]
ExecuteBuyCfg ==
    [key |-> WalletKey, endpoint |-> "/api/trade-local", pre |-> FALSE,
     confirm |-> "checked", post |-> FALSE, guarded |-> TRUE]

\* A fresh activation of workflow function fn, not yet run.
NewProc(fn) ==
    [fn |-> fn, pc |-> "entry", out |-> "running", http |-> "none",
     signers |-> {}, submitted |-> FALSE, confirmed |-> FALSE, err |-> "none"]

\* The JSON body of the build request: the wallet's public key and the
\* operation's parameters.
BuildRequest(c) ==
    Message("api", c.endpoint, {PublicKeyBase58(c.key), Param("params", 0)})

GetBalanceRequest(c) == Message("rpc", "getBalance", {PublicKeyBase58(c.key)})
SendTransactionRequest(t, n) == Message("rpc", "sendTransaction", {SignedTx(t, n)})
ConfirmRequest == Message("rpc", "confirmTransaction", {Param("signature", 0)})

\* An exception raised at the current position: caught by the function's own
\* try where there is one around it, otherwise it leaves the function.
Thrown(p, c, inTry) ==
    [p EXCEPT !.pc = "done",
              !.out = IF inTry \/ c.guarded THEN "returned" ELSE "threw"]

Returned(p) == [p EXCEPT !.pc = "done", !.out = "returned"]

\* One continuation of activation i of a single-transaction workflow.
SingleTx(i, c) ==
    LET p == procs[i] IN
    /\ p.out = "running"
    /\ \/ \* the call: the synchronous prefix up to the first await
          /\ p.pc = "entry"
          /\ IF c.pre
               THEN /\ procs' = [procs EXCEPT ![i].pc = "getBalance"]
                    /\ sent' = sent \cup {GetBalanceRequest(c)}
               ELSE /\ procs' = [procs EXCEPT ![i].pc = "fetch"]
                    /\ sent' = sent \cup {BuildRequest(c)}
       \/ \* await connection.getBalance(...) before the build request
          /\ p.pc = "getBalance"
          /\ \E ok \in BOOLEAN :
               IF ok
                 THEN /\ procs' = [procs EXCEPT ![i].pc = "fetch"]
                      /\ sent' = sent \cup {BuildRequest(c)}
                 ELSE /\ procs' = [procs EXCEPT ![i] = Thrown(p, c, FALSE)]
                      /\ UNCHANGED sent
       \/ \* await fetch(build endpoint): rejected, 200, or another status
          /\ p.pc = "fetch"
          /\ \E r \in {"rejected", "ok", "error"} :
               /\ procs' = [procs EXCEPT ![i] =
                     IF r = "rejected" THEN Thrown(p, c, FALSE)
                     ELSE [p EXCEPT !.http = r,
                                    !.pc = IF r = "ok" THEN "body" ELSE "errorJson"]]
               /\ UNCHANGED sent
       \/ \* status !== 200: await response.json(), log, return
          /\ p.pc = "errorJson"
          /\ \E parsed \in BOOLEAN :
               procs' = [procs EXCEPT ![i] =
                   IF parsed THEN Returned(p)
                   ELSE [Thrown(p, c, FALSE) EXCEPT !.http = "errorNotJson"]]
          /\ UNCHANGED sent
       \/ \* await response.arrayBuffer() / json(); deserialize; tx.sign([keypair]);
          \* connection.sendTransaction(tx, ...)
          /\ p.pc = "body"
          /\ \E fault \in {"none", "deserialize", "sign"} :
               IF fault = "none"
                 THEN /\ procs' = [procs EXCEPT ![i].pc = "sendTransaction",
                                                ![i].signers = {c.key},
                                                ![i].submitted = TRUE]
                      /\ sent' = sent \cup {SendTransactionRequest(c.endpoint, 0)}
                 ELSE /\ procs' = [procs EXCEPT ![i] =
                            [Thrown(p, c, FALSE) EXCEPT !.err = fault]]
                      /\ UNCHANGED sent
       \/ \* await connection.sendTransaction(...), inside try
          /\ p.pc = "sendTransaction"
          /\ \E ok \in BOOLEAN :
               IF ok /\ c.confirm # "none"
                 THEN /\ procs' = [procs EXCEPT ![i].pc = "confirmTransaction"]
                      /\ sent' = sent \cup {ConfirmRequest}
                 ELSE /\ procs' = [procs EXCEPT ![i] =
                            IF ok THEN Returned(p) ELSE Thrown(p, c, TRUE)]
                      /\ UNCHANGED sent
       \/ \* await connection.confirmTransaction(...), inside try: only buyToken
          \* and executeBuy look at confirmation.value.err
          /\ p.pc = "confirmTransaction"
          /\ \E r \in {"rejected", "confirmed", "err"} :
               IF r # "rejected" /\ c.post
                 THEN /\ procs' = [procs EXCEPT ![i].pc = "getBalanceAfter",
                                                ![i].confirmed = (r = "confirmed")]
                      /\ sent' = sent \cup {GetBalanceRequest(c)}
                 ELSE /\ procs' = [procs EXCEPT ![i] =
                            IF r = "rejected" THEN Thrown(p, c, TRUE)
                            ELSE [Returned(p) EXCEPT
                                    !.confirmed = (r = "confirmed"),
                                    !.err = IF r = "err" /\ c.confirm = "checked"
                                              THEN "confirmation" ELSE @]]
                      /\ UNCHANGED sent
       \/ \* await connection.getBalance(...) after the confirmation, inside try
          /\ p.pc = "getBalanceAfter"
          /\ \E ok \in BOOLEAN :
               procs' = [procs EXCEPT ![i] =
                   IF ok THEN Returned(p) ELSE Thrown(p, c, TRUE)]
          /\ UNCHANGED sent

loopVars == <<entries, loop, inflight, attempted, visited, failed>>
createVars == <<create, txs, signedTxs, jito>>

vars == <<flow, procs, sent, loopVars, createVars, ws, dispatch, sched, main, bot>>

buyToken == flow = "buyToken" /\ SingleTx(1, BuyTokenCfg) /\ UNCHANGED <<main, bot, flow, loopVars, createVars, ws, dispatch, sched>>
sellToken == flow = "sellToken" /\ SingleTx(1, SellTokenCfg) /\ UNCHANGED <<main, bot, flow, loopVars, createVars, ws, dispatch, sched>>
transferSol == flow = "transferSol" /\ SingleTx(1, TransferSolCfg) /\ UNCHANGED <<main, bot, flow, loopVars, createVars, ws, dispatch, sched>>
transferAllSol ==
    flow = "transferAllSol" /\ SingleTx(1, TransferAllSolCfg) /\ UNCHANGED <<main, bot, flow, loopVars, createVars, ws, dispatch, sched>>
claimFees == flow = "claimFees" /\ SingleTx(1, ClaimFeesCfg) /\ UNCHANGED <<main, bot, flow, loopVars, createVars, ws, dispatch, sched>>
distributeFees ==
    flow = "distributeFees" /\ SingleTx(1, DistributeFeesCfg) /\ UNCHANGED <<main, bot, flow, loopVars, createVars, ws, dispatch, sched>>

(***************************************************************************)
(* Looped flows: sellBundleFast, batchTransfer, claimMultipleMints.        *)
(***************************************************************************)

\* Longest list a looped flow is run on.
MaxEntries == 3

LoopFlows == {"sellBundleFast", "batchTransfer", "claimMultipleMints"}

\* sellBundleFast's accounts: account a is named a and signs with its own key.
\* An entry of the API's answer names an account, or (name 0) no account of
\* the list, and carries a transaction or an error.
AccountKey(a) == Key("account", a)

SellEntries(n) ==
    {e \in [1..n -> [name : 0..n, transaction : BOOLEAN]] :
        \A i \in 1..n : e[i].name \in {0, i}}

\* claimMultipleMints: each entry of result.transactions carries a
\* transaction or an error.
ClaimEntries(n) == [1..n -> [name : {0}, transaction : BOOLEAN]]

\* batchTransfer: the recipients; the transaction is built inside the loop.
Recipients(n) == [1..n -> [name : {0}, transaction : {FALSE}]]

NewLoop ==
    [pc |-> "entry", out |-> "running", http |-> "none", idx |-> 0,
     signatures |-> <<>>, successCount |-> 0, delays |-> <<>>]

Call(entry, op) == [entry |-> entry, op |-> op]

NotAwaited(call) == inflight

\* `await call`: the function resumes only when the call has settled, so the
\* call is no longer in flight when the code after it runs.
Await(call) == inflight \ {call}

FindAnyAccount(name) == IF Len(entries) > 0 THEN 1 ELSE 0

\* accounts.find(a => a.name === txInfo.name): the first account of that name,
\* 0 for undefined.
FindAccount(name) ==
    IF \E a \in 1..Len(entries) : a = name
      THEN CHOOSE a \in 1..Len(entries) : a = name /\ \A b \in 1..(a - 1) : b # name
      ELSE 0

Rethrow(after) == [loop EXCEPT !.pc = "done", !.out = "threw"]

\* The catch block of a loop body: log the error and go on with what follows
\* the try statement (the next entry, or batchTransfer's delay).
CatchInLoop(after) == [loop EXCEPT !.pc = after]

LoopReturned == [loop EXCEPT !.pc = "done", !.out = "returned"]
LoopThrew == [loop EXCEPT !.pc = "done", !.out = "threw"]

\* `continue` / the end of the loop body: on to the next entry.
NextEntry(l) == [l EXCEPT !.pc = "loop", !.idx = @ + 1]

sellBundleFast ==
    /\ flow = "sellBundleFast"
    /\ loop.out = "running"
    /\ UNCHANGED <<main, bot, flow, procs, entries, createVars, ws, dispatch, sched>>
    /\ \/ \* the call: POST /api/trade-bundle with every account's public key
          /\ loop.pc = "entry"
          /\ loop' = [loop EXCEPT !.pc = "fetch"]
          /\ inflight' = inflight \cup {Call(0, "fetch")}
          /\ sent' = sent \cup
               {Message("api", "/api/trade-bundle",
                        {PublicKeyBase58(AccountKey(a)) : a \in 1..Len(entries)}
                            \cup {Param("params", 0)})}
          /\ UNCHANGED <<attempted, visited, failed>>
       \/ \* await fetch(...); then response.json() is awaited on either branch
          /\ loop.pc = "fetch"
          /\ \E r \in {"rejected", "ok", "error"} :
               IF r = "rejected"
                 THEN /\ loop' = LoopThrew
                      /\ inflight' = Await(Call(0, "fetch"))
                 ELSE /\ loop' = [loop EXCEPT !.http = r,
                                    !.pc = IF r = "ok" THEN "json" ELSE "errorJson"]
                      /\ inflight' = Await(Call(0, "fetch")) \cup {Call(0, "json")}
          /\ UNCHANGED <<sent, attempted, visited, failed>>
       \/ \* status !== 200: await response.json(), log, return null
          /\ loop.pc = "errorJson"
          /\ inflight' = Await(Call(0, "json"))
          /\ \E parsed \in BOOLEAN :
               loop' = IF parsed THEN LoopReturned
                       ELSE [LoopThrew EXCEPT !.http = "errorNotJson"]
          /\ UNCHANGED <<sent, attempted, visited, failed>>
       \/ \* const result = await response.json()
          /\ loop.pc = "json"
          /\ inflight' = Await(Call(0, "json"))
          /\ \E parsed \in BOOLEAN :
               loop' = IF parsed THEN NextEntry(loop) ELSE LoopThrew
          /\ UNCHANGED <<sent, attempted, visited, failed>>
       \/ \* for (const txInfo of result.transactions): the body up to its await
          /\ loop.pc = "loop"
          /\ IF loop.idx > Len(entries)
               THEN /\ loop' = LoopReturned
                    /\ UNCHANGED <<sent, inflight, attempted, visited, failed>>
               ELSE LET txInfo == entries[loop.idx] IN
                    /\ visited' = Append(visited, loop.idx)
                    /\ IF ~txInfo.transaction \/ FindAccount(txInfo.name) = 0
                         THEN \* no transaction, or no matching account: continue
                              /\ loop' = NextEntry(loop)
                              /\ UNCHANGED <<sent, inflight, attempted, failed>>
                         ELSE \* try { deserialize; tx.sign([account.keypair]); send
                              /\ attempted' = Append(attempted, loop.idx)
                              /\ \E wellFormed \in BOOLEAN :
                                   IF wellFormed
                                     THEN /\ loop' = [loop EXCEPT !.pc = "sendTransaction"]
                                          /\ inflight' = inflight \cup
                                               {Call(loop.idx, "sendTransaction")}
                                          /\ sent' = sent \cup
                                               {SendTransactionRequest("entry", loop.idx)}
                                          /\ UNCHANGED failed
                                     ELSE /\ loop' = NextEntry(CatchInLoop("loop"))
                                          /\ failed' = failed \cup {loop.idx}
                                          /\ UNCHANGED <<sent, inflight>>
       \/ \* await connection.sendTransaction(...); signatures.push(...)
          /\ loop.pc = "sendTransaction"
          /\ inflight' = Await(Call(loop.idx, "sendTransaction"))
          /\ \E ok \in BOOLEAN :
               IF ok
                 THEN /\ loop' = NextEntry([loop EXCEPT
                                     !.signatures = Append(@, entries[loop.idx].name)])
                      /\ UNCHANGED failed
                 ELSE /\ loop' = NextEntry(CatchInLoop("loop"))
                      /\ failed' = failed \cup {loop.idx}
          /\ UNCHANGED <<sent, attempted, visited>>

\* The body of POST /api/transfer for one recipient.
TransferRequest(i) ==
    Message("api", "/api/transfer",
            {PublicKeyBase58(WalletKey), Param("recipient", i), Param("params", 0)})

\* What follows the try statement in batchTransfer's loop body: the 500 ms pause.
AfterTry == "delay"

batchTransfer ==
    /\ flow = "batchTransfer"
    /\ loop.out = "running"
    /\ UNCHANGED <<main, bot, flow, procs, entries, createVars, ws, dispatch, sched>>
    /\ \/ \* the call, up to the for statement
          /\ loop.pc = "entry"
          /\ loop' = NextEntry(loop)
          /\ UNCHANGED <<sent, inflight, attempted, visited, failed>>
       \/ \* for (const recipient of recipients): try { fetch(/api/transfer)
          /\ loop.pc = "loop"
          /\ IF loop.idx > Len(entries)
               THEN /\ loop' = LoopReturned
                    /\ UNCHANGED <<sent, inflight, attempted, visited, failed>>
               ELSE /\ visited' = Append(visited, loop.idx)
                    /\ attempted' = Append(attempted, loop.idx)
                    /\ loop' = [loop EXCEPT !.pc = "fetch"]
                    /\ inflight' = inflight \cup {Call(loop.idx, "fetch")}
                    /\ sent' = sent \cup {TransferRequest(loop.idx)}
                    /\ UNCHANGED failed
       \/ \* await fetch(...), inside try
          /\ loop.pc = "fetch"
          /\ \E r \in {"rejected", "ok", "error"} :
               IF r = "rejected"
                 THEN /\ loop' = CatchInLoop(AfterTry)
                      /\ inflight' = Await(Call(loop.idx, "fetch"))
                      /\ failed' = failed \cup {loop.idx}
                 ELSE /\ loop' = [loop EXCEPT
                            !.pc = IF r = "ok" THEN "body" ELSE "errorJson"]
                      /\ inflight' = Await(Call(loop.idx, "fetch"))
                                        \cup {Call(loop.idx, "body")}
                      /\ UNCHANGED failed
          /\ UNCHANGED <<sent, attempted, visited>>
       \/ \* status !== 200: await response.json(); log; continue
          /\ loop.pc = "errorJson"
          /\ inflight' = Await(Call(loop.idx, "body"))
          /\ \E parsed \in BOOLEAN :
               IF parsed
                 THEN loop' = NextEntry(loop) /\ UNCHANGED failed
                 ELSE loop' = CatchInLoop(AfterTry) /\ failed' = failed \cup {loop.idx}
          /\ UNCHANGED <<sent, attempted, visited>>
       \/ \* await response.arrayBuffer(); deserialize; tx.sign([keypair]); send
          /\ loop.pc = "body"
          /\ \E wellFormed \in BOOLEAN :
               IF wellFormed
                 THEN /\ loop' = [loop EXCEPT !.pc = "sendTransaction"]
                      /\ inflight' = Await(Call(loop.idx, "body"))
                                        \cup {Call(loop.idx, "sendTransaction")}
                      /\ sent' = sent \cup {SendTransactionRequest("entry", loop.idx)}
                      /\ UNCHANGED failed
                 ELSE /\ loop' = CatchInLoop(AfterTry)
                      /\ inflight' = Await(Call(loop.idx, "body"))
                      /\ failed' = failed \cup {loop.idx}
                      /\ UNCHANGED sent
          /\ UNCHANGED <<attempted, visited>>
       \/ \* await connection.sendTransaction(...)
          /\ loop.pc = "sendTransaction"
          /\ \E ok \in BOOLEAN :
               IF ok
                 THEN /\ loop' = [loop EXCEPT !.pc = "confirmTransaction"]
                      /\ inflight' = Await(Call(loop.idx, "sendTransaction"))
                                        \cup {Call(loop.idx, "confirmTransaction")}
                      /\ sent' = sent \cup {ConfirmRequest}
                      /\ UNCHANGED failed
                 ELSE /\ loop' = CatchInLoop(AfterTry)
                      /\ inflight' = Await(Call(loop.idx, "sendTransaction"))
                      /\ failed' = failed \cup {loop.idx}
                      /\ UNCHANGED sent
          /\ UNCHANGED <<attempted, visited>>
       \/ \* await connection.confirmTransaction(...); successCount++
          /\ loop.pc = "confirmTransaction"
          /\ inflight' = Await(Call(loop.idx, "confirmTransaction"))
          /\ \E ok \in BOOLEAN :
               IF ok
                 THEN /\ loop' = [loop EXCEPT !.pc = AfterTry, !.successCount = @ + 1]
                      /\ UNCHANGED failed
                 ELSE /\ loop' = CatchInLoop(AfterTry)
                      /\ failed' = failed \cup {loop.idx}
          /\ UNCHANGED <<sent, attempted, visited>>
       \/ \* await new Promise(resolve => setTimeout(resolve, 500))
          /\ loop.pc = "delay"
          /\ loop' = NextEntry([loop EXCEPT !.delays = Append(@, loop.idx)])
          /\ UNCHANGED <<sent, inflight, attempted, visited, failed>>

claimMultipleMints ==
    /\ flow = "claimMultipleMints"
    /\ loop.out = "running"
    /\ UNCHANGED <<main, bot, flow, procs, entries, createVars, ws, dispatch, sched>>
    /\ \/ \* the call: POST /api/claim-all
          /\ loop.pc = "entry"
          /\ loop' = [loop EXCEPT !.pc = "fetch"]
          /\ inflight' = inflight \cup {Call(0, "fetch")}
          /\ sent' = sent \cup
               {Message("api", "/api/claim-all",
                        {PublicKeyBase58(WalletKey), Param("mints", 0), Param("params", 0)})}
          /\ UNCHANGED <<attempted, visited, failed>>
       \/ \* await fetch(...): the status is not looked at
          /\ loop.pc = "fetch"
          /\ \E r \in {"rejected", "ok", "error"} :
               IF r = "rejected"
                 THEN /\ loop' = LoopThrew
                      /\ inflight' = Await(Call(0, "fetch"))
                 ELSE /\ loop' = [loop EXCEPT !.http = r, !.pc = "json"]
                      /\ inflight' = Await(Call(0, "fetch")) \cup {Call(0, "json")}
          /\ UNCHANGED <<sent, attempted, visited, failed>>
       \/ \* const result = await response.json(); for (... of result.transactions):
          \* an error body { error } has no transactions list to iterate
          /\ loop.pc = "json"
          /\ inflight' = Await(Call(0, "json"))
          /\ \E parsed \in BOOLEAN :
               loop' = IF ~parsed THEN [LoopThrew EXCEPT
                                          !.http = IF loop.http = "error"
                                                     THEN "errorNotJson" ELSE @]
                       ELSE IF loop.http = "error" THEN LoopThrew
                       ELSE NextEntry(loop)
          /\ UNCHANGED <<sent, attempted, visited, failed>>
       \/ \* the loop body up to its first await
          /\ loop.pc = "loop"
          /\ IF loop.idx > Len(entries)
               THEN /\ loop' = LoopReturned
                    /\ UNCHANGED <<sent, inflight, attempted, visited, failed>>
               ELSE LET txResult == entries[loop.idx] IN
                    /\ visited' = Append(visited, loop.idx)
                    /\ IF ~txResult.transaction
                         THEN \* txResult.error: log; continue
                              /\ loop' = NextEntry(loop)
                              /\ UNCHANGED <<sent, inflight, attempted, failed>>
                         ELSE \* try { deserialize; tx.sign([keypair]); send
                              /\ attempted' = Append(attempted, loop.idx)
                              /\ \E wellFormed \in BOOLEAN :
                                   IF wellFormed
                                     THEN /\ loop' = [loop EXCEPT !.pc = "sendTransaction"]
                                          /\ inflight' = inflight \cup
                                               {Call(loop.idx, "sendTransaction")}
                                          /\ sent' = sent \cup
                                               {SendTransactionRequest("entry", loop.idx)}
                                          /\ UNCHANGED failed
                                     ELSE /\ loop' = NextEntry(CatchInLoop("loop"))
                                          /\ failed' = failed \cup {loop.idx}
                                          /\ UNCHANGED <<sent, inflight>>
       \/ \* await connection.sendTransaction(...)
          /\ loop.pc = "sendTransaction"
          /\ \E ok \in BOOLEAN :
               IF ok
                 THEN /\ loop' = [loop EXCEPT !.pc = "confirmTransaction"]
                      /\ inflight' = Await(Call(loop.idx, "sendTransaction"))
                                        \cup {Call(loop.idx, "confirmTransaction")}
                      /\ sent' = sent \cup {ConfirmRequest}
                      /\ UNCHANGED failed
                 ELSE /\ loop' = NextEntry(CatchInLoop("loop"))
                      /\ inflight' = Await(Call(loop.idx, "sendTransaction"))
                      /\ failed' = failed \cup {loop.idx}
                      /\ UNCHANGED sent
          /\ UNCHANGED <<attempted, visited>>
       \/ \* await connection.confirmTransaction(...)
          /\ loop.pc = "confirmTransaction"
          /\ inflight' = Await(Call(loop.idx, "confirmTransaction"))
          /\ \E ok \in BOOLEAN :
               IF ok
                 THEN loop' = NextEntry(loop) /\ UNCHANGED failed
                 ELSE /\ loop' = NextEntry(CatchInLoop("loop"))
                      /\ failed' = failed \cup {loop.idx}
          /\ UNCHANGED <<sent, attempted, visited>>

(***************************************************************************)
(* Token creation: createTokenOnly, createTokenWithDevBuy,                 *)
(* createTokenWithDevBuyJito, createTokenWithMultipleBuyers, and           *)
(* sendJitoBundle.                                                         *)
(***************************************************************************)

\* createTokenWithDevBuy of the older script (src/unnamed/part_002), which
\* sends the create and the dev buy as a Jito bundle.
OlderDevBuy == "part_002/createTokenWithDevBuy"

\* The functions that sign with the creator and, where declared, the mint.
DevBuyBundleFlows == {"createTokenWithDevBuyJito", OlderDevBuy}

CreateFlows ==
    {"createTokenOnly", "createTokenWithDevBuy",
     "createTokenWithDevBuyJito", "createTokenWithMultipleBuyers", OlderDevBuy}

\* Most transactions an answer of /api/create or /api/create-bundle holds.
MaxTxs == 2

\* JITO_ENDPOINTS.length
NumJitoEndpoints == 5

\* Signer lists the API may declare for one transaction: the documented ones
\* (create: creator + mint; buys: one wallet), a repeated role, a role the
\* client holds no wallet for, a name every JavaScript object inherits, and
\* the empty list.
SignerLists ==
    {<<"creator", "mint">>, <<"creator">>, <<"buyer1">>, <<"buyer2", "buyer3">>,
     <<"creator", "creator">>, <<"buyer4">>, <<"creator", "buyer4">>,
     <<"constructor">>, <<>>}

TxLists == UNION {[1..n -> SignerLists] : n \in 0..MaxTxs}

Keypair(role) == [kind |-> "keypair", role |-> role]
Undefined == [kind |-> "undefined", role |-> ""]

\* const wallets = { creator, buyer1, buyer2, buyer3 }
WalletRoles == {"creator", "buyer1", "buyer2", "buyer3"}

\* Property names every object literal inherits from Object.prototype.
InheritedNames == {"constructor"}

\* wallets[s]: the keypair of an own property, the inherited value (no keypair)
\* of an inherited one, otherwise undefined.
WalletsLookup(s) ==
    IF s \in WalletRoles THEN Keypair(s)
    ELSE IF s \in InheritedNames THEN [kind |-> "object", role |-> s]
    ELSE Undefined

SignerFromWalletsOnly(s) == WalletsLookup(s)

\* (s) => (s === "mint" ? mintKeypair : wallets[s])
SignerOf(s) == IF s = "mint" THEN Keypair("mint") ELSE WalletsLookup(s)

ResolveWithoutFilter(signers) == [i \in 1..Len(signers) |-> SignerOf(signers[i])]

\* txInfo.signers.map(...).filter(Boolean)
ResolveSigners(signers) ==
    SelectSeq([i \in 1..Len(signers) |-> SignerOf(signers[i])],
              LAMBDA v : v.kind # "undefined")

Range(f) == {f[i] : i \in DOMAIN f}

SignersAsDeclared(signers) == ResolveSigners(signers)

\* txInfo.signers.includes("mint") ? [creator, mintKeypair] : [creator]
DevBuySigners(signers) ==
    IF "mint" \in Range(signers)
      THEN <<Keypair("creator"), Keypair("mint")>>
      ELSE <<Keypair("creator")>>

\* tx.sign(signers) reads signer.publicKey and signer.secretKey of every
\* element: it throws on an element that is no keypair.
SignThrows(signers) == \E i \in 1..Len(signers) : signers[i].kind # "keypair"

\* decoded: the mint secret key or a transaction of the API's answer has
\* been handed to bs58.decode.
NewCreate ==
    [pc |-> "entry", out |-> "running", http |-> "none", err |-> "none",
     decoded |-> FALSE]

\* Keypair.fromSecretKey(bs58.decode(result.mintSecretKey)), then the
\* transactions
Decoding(c) == [c EXCEPT !.decoded = TRUE]
NewJito ==
    [idx |-> 0, contacted |-> <<>>, answers |-> <<>>, res |-> "none", bundleId |-> 0]

CreateThrew(err) == [create EXCEPT !.pc = "done", !.out = "threw", !.err = err]
CreateReturned == [create EXCEPT !.pc = "done", !.out = "returned"]

\* The body of POST /api/create and /api/create-bundle: the creator's public
\* key, the token's parameters and, for a bundle, the buyers' public keys.
CreateRequest(endpoint) ==
    Message("api", endpoint,
            {PublicKeyBase58(Key("creator", 0)), Param("params", 0)} \cup
            IF endpoint = "/api/create-bundle"
              THEN {PublicKeyBase58(Key(b, 0)) : b \in {"buyer1", "buyer2", "buyer3"}}
              ELSE {})

\* params: [signedTxs] of the sendBundle call
BundleRequest(endpoint, bundle) ==
    Message("jito", endpoint, {SignedTx("bundle", i) : i \in 1..Len(bundle)})

\* The first fetch of sendJitoBundle(bundle), issued by the caller's call.
CallSendJitoBundle(bundle) ==
    /\ jito' = [jito EXCEPT !.idx = 1, !.contacted = <<1>>]
    /\ sent' = sent \cup {BundleRequest(1, bundle)}

\* The part every create function starts with: uploadMetadata(), then the
\* POST to the build endpoint, up to `await res.json()`.
CreateBuild(endpoint) ==
    \/ /\ create.pc = "entry"
       /\ create' = [create EXCEPT !.pc = "uploadMetadata"]
       /\ sent' = sent \cup {Message("ipfs", "/api/ipfs", {Param("metadata", 0)})}
    \/ /\ create.pc = "uploadMetadata"
       /\ \E ok \in BOOLEAN :
            IF ok
              THEN /\ create' = [create EXCEPT !.pc = "fetch"]
                   /\ sent' = sent \cup {CreateRequest(endpoint)}
              ELSE /\ create' = CreateThrew("upload")
                   /\ UNCHANGED sent
    \/ /\ create.pc = "fetch"
       /\ \E r \in {"rejected", "ok", "error"} :
            create' = IF r = "rejected" THEN CreateThrew("fetch")
                      ELSE [create EXCEPT !.http = r, !.pc = "json"]
       /\ UNCHANGED sent

\* const result = await res.json(); if (res.status !== 200) throw ...
\* TRUE when the function goes on to decode and sign.
AcceptAnyParsed(parsed) == parsed
ResultAccepted(parsed) == parsed /\ create.http = "ok"

RejectResult(parsed) ==
    IF ~parsed
      THEN [CreateThrew("parse") EXCEPT
              !.http = IF create.http = "error" THEN "errorNotJson" ELSE @]
      ELSE CreateThrew("status")

SignAllSkipping(fn, bad) ==
    LET resolve(signers) == IF fn \in DevBuyBundleFlows
                              THEN DevBuySigners(signers)
                              ELSE ResolveSigners(signers)
        kept == SelectSeq([i \in 1..Len(txs) |-> i],
                          LAMBDA i : i # bad /\ ~SignThrows(resolve(txs[i])))
        signedList == [k \in 1..Len(kept) |-> [tx |-> kept[k], signers |-> resolve(txs[kept[k]])]]
    IN  /\ signedTxs' = signedList
        /\ create' = Decoding([create EXCEPT !.pc = "sendJitoBundle"])
        /\ CallSendJitoBundle(signedList)

\* result.transactions.map((txInfo) => { deserialize; resolve; sign; encode }):
\* the transactions before the first one that cannot be deserialized (bad, 0
\* for none) or signed are signed; a throw leaves the function.
SignAll(fn, bad) ==
    LET resolve(signers) == IF fn \in DevBuyBundleFlows
                              THEN DevBuySigners(signers)
                              ELSE ResolveSigners(signers)
        stop(i) == i = bad \/ SignThrows(resolve(txs[i]))
        n == Len(txs)
        firstStop == IF \E i \in 1..n : stop(i)
                       THEN CHOOSE i \in 1..n : stop(i) /\ \A j \in 1..(i - 1) : ~stop(j)
                       ELSE 0
        upTo == IF firstStop = 0 THEN n ELSE firstStop - 1
        signedList == [i \in 1..upTo |-> [tx |-> i, signers |-> resolve(txs[i])]]
    IN  /\ signedTxs' = signedList
        /\ IF firstStop = 0
             THEN /\ create' = Decoding([create EXCEPT !.pc = "sendJitoBundle"])
                  /\ CallSendJitoBundle(signedList)
             ELSE /\ create' = Decoding(CreateThrew(IF firstStop = bad THEN "deserialize"
                                                    ELSE "sign"))
                  /\ UNCHANGED <<jito, sent>>

\* After sendJitoBundle has returned: waitForToken when the bundle was
\* accepted, then the closing log lines.
AfterBundle ==
    \/ /\ create.pc = "afterBundle"
       /\ IF jito.res = "success"
            THEN /\ create' = [create EXCEPT !.pc = "waitForToken"]
                 /\ sent' = sent \cup
                      {Message("rpc", "getAccountInfo", {PublicKeyBase58(Key("mint", 0))})}
            ELSE /\ create' = CreateReturned
                 /\ UNCHANGED sent
    \/ /\ create.pc = "waitForToken"
       /\ \E r \in {"found", "notFound", "rejected"} :
            create' = IF r = "rejected" THEN CreateThrew("rpc") ELSE CreateReturned
       /\ UNCHANGED sent

createTokenWithMultipleBuyers ==
    /\ flow = "createTokenWithMultipleBuyers"
    /\ create.out = "running"
    /\ UNCHANGED <<main, bot, flow, procs, loopVars, txs, ws, dispatch, sched>>
    /\ \/ CreateBuild("/api/create-bundle") /\ UNCHANGED <<signedTxs, jito>>
       \/ /\ create.pc = "json"
          /\ \E parsed \in BOOLEAN, bad \in 0..Len(txs) :
               IF ResultAccepted(parsed)
                 THEN SignAll("createTokenWithMultipleBuyers", bad)
                 ELSE /\ create' = RejectResult(parsed)
                      /\ bad = 0
                      /\ UNCHANGED <<signedTxs, jito, sent>>
       \/ AfterBundle /\ UNCHANGED <<signedTxs, jito>>

\* The create + dev buy sent as a Jito bundle: the same statements in
\* createTokenWithDevBuyJito and in createTokenWithDevBuy of the older script.
CreateAndDevBuy(fn) ==
    /\ flow = fn
    /\ create.out = "running"
    /\ UNCHANGED <<main, bot, flow, procs, loopVars, txs, ws, dispatch, sched>>
    /\ \/ CreateBuild("/api/create") /\ UNCHANGED <<signedTxs, jito>>
       \/ /\ create.pc = "json"
          /\ \E parsed \in BOOLEAN, bad \in 0..Len(txs) :
               IF ResultAccepted(parsed)
                 THEN SignAll(fn, bad)
                 ELSE /\ create' = RejectResult(parsed)
                      /\ bad = 0
                      /\ UNCHANGED <<signedTxs, jito, sent>>
       \/ AfterBundle /\ UNCHANGED <<signedTxs, jito>>

createTokenWithDevBuyJito == CreateAndDevBuy("createTokenWithDevBuyJito")

olderCreateTokenWithDevBuy == CreateAndDevBuy(OlderDevBuy)

\* One transaction (result.transaction), signed with [creator, mintKeypair].
SignOne(wellFormed) ==
    IF wellFormed
      THEN signedTxs' = <<[tx |-> 1, signers |-> <<Keypair("creator"), Keypair("mint")>>]>>
      ELSE /\ create' = Decoding(CreateThrew("deserialize"))
           /\ UNCHANGED <<signedTxs, jito, sent>>

createTokenOnly ==
    /\ flow = "createTokenOnly"
    /\ create.out = "running"
    /\ UNCHANGED <<main, bot, flow, procs, loopVars, txs, ws, dispatch, sched>>
    /\ \/ CreateBuild("/api/create") /\ UNCHANGED <<signedTxs, jito>>
       \/ /\ create.pc = "json"
          /\ \E parsed \in BOOLEAN, wellFormed \in BOOLEAN :
               IF ResultAccepted(parsed)
                 THEN /\ SignOne(wellFormed)
                      /\ wellFormed =>
                           /\ create' = Decoding([create EXCEPT !.pc = "sendJitoBundle"])
                           /\ CallSendJitoBundle(signedTxs')
                 ELSE /\ create' = RejectResult(parsed)
                      /\ wellFormed
                      /\ UNCHANGED <<signedTxs, jito, sent>>
       \/ \* bundleRes is not looked at: the closing log lines, return
          /\ create.pc = "afterBundle"
          /\ create' = CreateReturned
          /\ UNCHANGED <<signedTxs, jito, sent>>

createTokenWithDevBuy ==
    /\ flow = "createTokenWithDevBuy"
    /\ create.out = "running"
    /\ UNCHANGED <<main, bot, flow, procs, loopVars, txs, jito, ws, dispatch, sched>>
    /\ \/ CreateBuild("/api/create") /\ UNCHANGED signedTxs
       \/ /\ create.pc = "json"
          /\ \E parsed \in BOOLEAN, wellFormed \in BOOLEAN :
               IF ResultAccepted(parsed)
                 THEN /\ SignOne(wellFormed)
                      /\ wellFormed =>
                           /\ create' = Decoding([create EXCEPT !.pc = "sendRawTransaction"])
                           /\ sent' = sent \cup {SendTransactionRequest("/api/create", 0)}
                 ELSE /\ create' = RejectResult(parsed)
                      /\ wellFormed
                      /\ UNCHANGED <<signedTxs, sent>>
       \/ \* await connection.sendRawTransaction(...): no try around it
          /\ create.pc = "sendRawTransaction"
          /\ \E ok \in BOOLEAN :
               IF ok
                 THEN /\ create' = [create EXCEPT !.pc = "confirmTransaction"]
                      /\ sent' = sent \cup {ConfirmRequest}
                 ELSE /\ create' = CreateThrew("rpc")
                      /\ UNCHANGED sent
          /\ UNCHANGED signedTxs
       \/ \* await connection.confirmTransaction(...); value.err throws
          /\ create.pc = "confirmTransaction"
          /\ \E r \in {"rejected", "confirmed", "err"} :
               create' = CASE r = "confirmed" -> CreateReturned
                           [] r = "err" -> CreateThrew("failed")
                           [] OTHER -> CreateThrew("rpc")
          /\ UNCHANGED <<signedTxs, sent>>

\* if (data.result): the endpoint accepted the bundle.
AcceptedNever(answer) == FALSE
Accepted(answer) == answer = "result"

\* The loop moves on from the endpoint just heard: the fetch to the next
\* endpoint of the list, or after the last one
\* return { success: false, error: "All Jito endpoints failed" }
NextEndpoint(heard) ==
    IF jito.idx < NumJitoEndpoints
      THEN /\ jito' = [heard EXCEPT !.idx = @ + 1,
                                    !.contacted = Append(@, jito.idx + 1)]
           /\ sent' = sent \cup {BundleRequest(jito.idx + 1, signedTxs)}
           /\ UNCHANGED create
      ELSE /\ jito' = [heard EXCEPT !.res = "failure"]
           /\ create' = [create EXCEPT !.pc = "afterBundle"]
           /\ UNCHANGED sent

Propagate(heard) ==
    /\ jito' = heard
    /\ create' = CreateThrew("jito")
    /\ UNCHANGED sent

\* catch (err) { continue; }
CatchContinue(heard) == NextEndpoint(heard)

\* for (const endpoint of JITO_ENDPOINTS) { try { fetch; json; ... } catch { continue } }
\* One continuation: the answer of the endpoint being tried (a result, an
\* error object, neither, or a fetch / json that throws), then either the
\* return or the fetch to the next endpoint.
sendJitoBundle ==
    /\ flow \in CreateFlows
    /\ create.pc = "sendJitoBundle"
    /\ UNCHANGED <<main, bot, flow, procs, loopVars, txs, signedTxs, ws, dispatch, sched>>
    /\ \E answer \in {"result", "error", "neither", "throws"} :
         LET heard == [jito EXCEPT !.answers = Append(@, answer)] IN
         IF Accepted(answer)
           THEN \* return { success: true, bundleId: data.result }
                /\ jito' = [heard EXCEPT !.res = "success", !.bundleId = jito.idx]
                /\ create' = [create EXCEPT !.pc = "afterBundle"]
                /\ UNCHANGED sent
           ELSE IF answer = "throws"
             THEN CatchContinue(heard)
             ELSE \* if (data.error) { log }; the end of the loop body
                  NextEndpoint(heard)

(***************************************************************************)
(* The WebSocket listener of websocket.js.                                 *)
(***************************************************************************)

\* Most frames the server delivers in one behaviour.
MaxFrames == 2

SystemTypes == {"connected", "subscribed", "unsubscribed", "error"}

\* What data.toString() can hold: text that is no JSON, the JSON null, a JSON
\* scalar or array, or a JSON object with its type / txType / mint fields and
\* its marketCapSol (a number, absent, or a value that is no number).
Frames ==
    [json : {"malformed", "null", "scalar"}, type : {""}, txType : {""},
     mint : {""}, cap : {"absent"}]
    \cup
    [json : {"object"}, type : SystemTypes, txType : {"create", ""},
     mint : {"X"}, cap : {"absent"}]
    \cup
    [json : {"object"}, type : {"ping", ""},
     txType : {"create", "buy", "sell", "migrate", ""},
     mint : {"X", "Y"}, cap : {"number", "absent", "text"}]

Display(handler, mint) == [handler |-> handler, mint |-> mint]

\* handleTradeEvent(event): one block of console.log lines per known txType;
\* event.marketCapSol?.toFixed(2) throws, after the mint line is printed, when
\* marketCapSol is neither nullish nor a number.
handleTradeEvent(event) ==
    IF event.txType = "create"
      THEN [shown |-> <<Display("newToken", event.mint)>>, error |-> event.cap = "text"]
    ELSE IF event.txType = "buy"
      THEN [shown |-> <<Display("buy", event.mint)>>, error |-> event.cap = "text"]
    ELSE IF event.txType = "sell"
      THEN [shown |-> <<Display("sell", event.mint)>>, error |-> event.cap = "text"]
    ELSE [shown |-> <<>>, error |-> FALSE]

MessageHandlerFallThrough(frame) ==
    IF frame.json \in {"malformed", "null"}
      THEN [shown |-> <<>>, error |-> TRUE]
    ELSE IF frame.json = "object" /\ frame.type \in SystemTypes
      THEN [shown |-> <<Display("system", frame.type)>> \o handleTradeEvent(frame).shown,
            error |-> handleTradeEvent(frame).error]
    ELSE IF frame.json = "object"
      THEN handleTradeEvent(frame)
    ELSE [shown |-> <<>>, error |-> FALSE]

\* ws.on("message", ...): try { JSON.parse; switch (message.type) { system
\* cases: log, return }; handleTradeEvent(message) } catch { log "Parse error" }
MessageHandler(frame) ==
    IF frame.json \in {"malformed", "null"}
      THEN \* JSON.parse throws, or null.type throws
           [shown |-> <<>>, error |-> TRUE]
    ELSE IF frame.json = "object" /\ frame.type \in SystemTypes
      THEN [shown |-> <<Display("system", frame.type)>>, error |-> FALSE]
    ELSE IF frame.json = "object"
      THEN handleTradeEvent(frame)
    ELSE [shown |-> <<>>, error |-> FALSE]

NoFrame == [json |-> "none", type |-> "", txType |-> "", mint |-> "", cap |-> "absent"]
NewDispatch == [frame |-> NoFrame, shown |-> <<>>, error |-> FALSE]

Control(method) == Message("ws", method, {Param("keys", 0)})

SubscribeToAll == <<"subscribeNewToken", "subscribeTokenTrade", "subscribeAccountTrade">>

\* The subscribe messages of the open handler, in the order sent.
Subscriptions ==
    <<"subscribeNewToken">>
      \o (IF ws.tokenMints THEN <<"subscribeTokenTrade">> ELSE <<>>)
      \o (IF ws.watchWallets THEN <<"subscribeAccountTrade">> ELSE <<>>)

\* The unsubscribe messages of the SIGINT handler, in the order sent.
NoUnsubscriptions == <<>>
Unsubscriptions ==
    <<"unsubscribeNewToken">>
      \o (IF ws.tokenMints THEN <<"unsubscribeTokenTrade">> ELSE <<>>)
      \o (IF ws.watchWallets THEN <<"unsubscribeAccountTrade">> ELSE <<>>)

\* setTimeout(() => { ws.close(); process.exit(0) }, 500), in clock ticks
ShutdownDelayTicks == 1

\* The clocks of the scheduler and the bot stop here.
MaxTime == 4
MaxSigints == 2

\* The close handler only logs: the socket stays closed.
Reconnecting == "connecting"
AfterClose == "closed"

Alive == main.exit = NotExited

wsOpen ==
    /\ flow = "websocket"
    /\ Alive
    /\ ws.state = "connecting"
    /\ ws' = [ws EXCEPT !.state = "open", !.log = @ \o Subscriptions, !.opened = @ + 1]
    /\ sent' = sent \cup {Control(Subscriptions[i]) : i \in 1..Len(Subscriptions)}
    /\ UNCHANGED <<main, bot, flow, procs, loopVars, createVars, dispatch, sched>>

wsMessage ==
    /\ flow = "websocket"
    /\ Alive
    /\ ws.state = "open"
    /\ ws.received < MaxFrames
    /\ \E frame \in Frames :
         /\ dispatch' = [frame |-> frame,
                         shown |-> MessageHandler(frame).shown,
                         error |-> MessageHandler(frame).error]
         /\ ws' = [ws EXCEPT !.received = @ + 1,
                             !.acked = @ \/ (ws.sigints > 0 /\ frame.type = "unsubscribed")]
    /\ UNCHANGED <<main, bot, flow, procs, sent, loopVars, createVars, sched>>

\* The close event: the handler logs; with nothing left pending the process
\* ends, otherwise it lives until the shutdown timer fires.
wsClose ==
    /\ flow = "websocket"
    /\ Alive
    /\ ws.state \in {"connecting", "open"}
    /\ ws' = [ws EXCEPT !.state = AfterClose, !.closes = @ + 1]
    /\ main' = IF ws.timers = {}
                 THEN [main EXCEPT !.pc = "done", !.exit = 0]
                 ELSE main
    /\ UNCHANGED <<bot, flow, procs, sent, loopVars, createVars, dispatch, sched>>

\* process.on("SIGINT"): the unsubscribe sends, then the timer.  ws.send throws
\* while the socket is still connecting (an uncaught exception: the process
\* dies with status 1) and discards the data once the socket has closed.
\* A timer is kept as the ticks left until it fires.
wsSigint ==
    /\ flow = "websocket"
    /\ Alive
    /\ ws.sigints < MaxSigints
    /\ IF ws.state = "connecting"
         THEN /\ ws' = [ws EXCEPT !.sigints = @ + 1]
              /\ main' = [main EXCEPT !.pc = "done", !.logged = TRUE, !.exit = 1]
              /\ UNCHANGED sent
         ELSE /\ ws' = [ws EXCEPT !.sigints = @ + 1,
                                  !.log = @ \o Unsubscriptions,
                                  !.timers = @ \cup {ShutdownDelayTicks}]
              /\ sent' = IF ws.state = "open"
                           THEN sent \cup {Control(Unsubscriptions[i]) :
                                             i \in 1..Len(Unsubscriptions)}
                           ELSE sent
              /\ UNCHANGED main
    /\ UNCHANGED <<bot, flow, procs, loopVars, createVars, dispatch, sched>>

\* The shutdown timer fires: ws.close(); process.exit(0)
wsShutdown ==
    /\ flow = "websocket"
    /\ Alive
    /\ 0 \in ws.timers
    /\ ws' = [ws EXCEPT !.state = "closed", !.log = Append(@, "close"),
                        !.timers = @ \ {0}]
    /\ main' = [main EXCEPT !.pc = "done", !.exit = 0]
    /\ UNCHANGED <<bot, flow, procs, sent, loopVars, createVars, dispatch, sched>>

\* One tick of the clock while a shutdown timer is pending; a timer that is
\* due fires first.
wsTick ==
    /\ flow = "websocket"
    /\ Alive
    /\ ws.timers # {}
    /\ 0 \notin ws.timers
    /\ ws' = [ws EXCEPT !.timers = {t - 1 : t \in @}, !.elapsed = @ + 1]
    /\ UNCHANGED <<main, bot, flow, procs, sent, loopVars, createVars, dispatch, sched>>

(***************************************************************************)
(* The claim scheduler: automatedClaiming(intervalHours).                  *)
(***************************************************************************)

\* The interval, in clock ticks, and the last tick of the clock.
IntervalTicks == 2

NewSched ==
    [pc |-> "entry", out |-> "running", now |-> 0, nextFire |-> -1,
     invoked |-> 0, firstEndedAt |-> -1, overlapped |-> FALSE, alive |-> TRUE]

Running == {i \in DOMAIN procs : procs[i].out = "running"}

StartClaimIfIdle(sc) ==
    IF Running = {}
      THEN /\ procs' = Append(procs, NewProc("claimFees"))
           /\ sched' = [sc EXCEPT !.invoked = @ + 1]
      ELSE /\ procs' = procs
           /\ sched' = sc

\* claimFees() is called: a new activation; two at once is an overlap.
StartClaim(sc) ==
    /\ procs' = Append(procs, NewProc("claimFees"))
    /\ sched' = [sc EXCEPT !.invoked = @ + 1,
                           !.overlapped = @ \/ Running # {}]

automatedClaiming ==
    /\ flow = "automatedClaiming"
    /\ sched.alive
    /\ UNCHANGED <<main, bot, flow, sent, loopVars, createVars, ws, dispatch>>
    /\ \/ \* "Run immediately": await claimFees()
          /\ sched.pc = "entry"
          /\ StartClaim([sched EXCEPT !.pc = "claimFees"])
       \/ \* the immediate claim has settled: setInterval(...), or the
          \* rejection leaves automatedClaiming
          /\ sched.pc = "claimFees"
          /\ procs[1].out # "running"
          /\ sched' = IF procs[1].out = "returned"
                        THEN [sched EXCEPT !.pc = "done", !.out = "returned",
                                           !.firstEndedAt = sched.now,
                                           !.nextFire = sched.now + IntervalTicks]
                        ELSE [sched EXCEPT !.pc = "done", !.out = "threw",
                                           !.firstEndedAt = sched.now]
          /\ UNCHANGED procs

\* A continuation of one of the scheduler's claimFees() activations.
scheduledClaimFees ==
    /\ flow = "automatedClaiming"
    /\ sched.alive
    /\ \E i \in DOMAIN procs : SingleTx(i, ClaimFeesCfg)
    /\ UNCHANGED <<main, bot, flow, loopVars, createVars, ws, dispatch, sched>>

\* The rejection of a claimFees() awaited inside the interval callback is
\* handled nowhere: the runtime ends the process (the default since Node 15)
\* or only warns (older runtimes).
unhandledRejection ==
    /\ flow = "automatedClaiming"
    /\ sched.alive
    /\ \E i \in DOMAIN procs : i > 1 /\ procs[i].out = "threw"
    /\ sched' = [sched EXCEPT !.alive = FALSE]
    /\ UNCHANGED <<main, bot, flow, procs, sent, loopVars, createVars, ws, dispatch>>

\* The clock advances by one tick and no timer is due.
Tick ==
    /\ flow = "automatedClaiming"
    /\ sched.alive
    /\ sched.now < MaxTime
    /\ sched.now + 1 # sched.nextFire
    /\ sched' = [sched EXCEPT !.now = @ + 1]
    /\ UNCHANGED <<main, bot, flow, procs, sent, loopVars, createVars, ws, dispatch>>

\* The clock reaches the timer: the interval callback runs claimFees().
intervalCallback ==
    /\ flow = "automatedClaiming"
    /\ sched.alive
    /\ sched.now < MaxTime
    /\ sched.now + 1 = sched.nextFire
    /\ StartClaim([sched EXCEPT !.now = @ + 1, !.nextFire = @ + IntervalTicks])
    /\ UNCHANGED <<main, bot, flow, sent, loopVars, createVars, ws, dispatch>>

(***************************************************************************)
(* The sniper bot: create events from the WebSocket feed, the filter, the  *)
(* concurrency limit and the cooldown, and the buys they start.            *)
(***************************************************************************)

\* SETTINGS: market caps in SOL, the creator's initial buy in tenths of a SOL
\* (minInitialBuySol: 0.5), the cooldown (cooldownMs: 5000) in clock ticks.
MaxMarketCapSol == 50
MinInitialBuyTenths == 5
MaxConcurrentBuys == 1
CooldownTicks == 2

MaxEvents == 2

\* A field the event does not carry (undefined).
Missing == -1

\* The frames of the feed: create events with or without a market cap and an
\* initial buy, one without traderPublicKey, and one that is no create event.
Events ==
    [txType : {"create"}, cap : {Missing, MaxMarketCapSol - 1, MaxMarketCapSol,
                                 MaxMarketCapSol + 1},
     sol : {MinInitialBuyTenths}, creator : {TRUE}]
    \cup
    [txType : {"create"}, cap : {MaxMarketCapSol - 1},
     sol : {Missing, MinInitialBuyTenths - 1}, creator : {TRUE}]
    \cup
    {[txType |-> "create", cap |-> MaxMarketCapSol - 1, sol |-> MinInitialBuyTenths,
      creator |-> FALSE],
     [txType |-> "buy", cap |-> MaxMarketCapSol - 1, sol |-> MinInitialBuyTenths,
      creator |-> TRUE]}

NoEvent == [txType |-> "", cap |-> Missing, sol |-> Missing, creator |-> FALSE]

\* Date.now() is far beyond cooldownMs when the bot starts, and lastBuyTime is 0.
\* Kept beside the program's variables: the event that led to the latest
\* executeBuy, when the latest two buys started, when a buy was last confirmed
\* and how many buys have started since, and which limit last skipped an event.
NewBot ==
    [state |-> "connecting", opened |-> 0, closes |-> 0, received |-> 0,
     now |-> CooldownTicks, activeBuys |-> 0, lastBuyTime |-> 0,
     bought |-> NoEvent, buys |-> 0, lastAttemptAt |-> -1, prevAttemptAt |-> -1,
     lastSuccessAt |-> -1, sinceSuccess |-> 0, skip |-> "none"]

\* checkCriteria(event): `marketCapSol && marketCapSol > maxMarketCapSol`, then
\* `solAmount < minInitialBuySol` (false for undefined); watchCreators is empty.
checkCriteria(event) ==
    IF event.cap # Missing /\ event.cap # 0 /\ event.cap > MaxMarketCapSol
      THEN "Market cap too high"
    ELSE IF event.sol # Missing /\ event.sol < MinInitialBuyTenths
      THEN "Initial buy too low"
    ELSE "pass"

\* if (activeBuys >= SETTINGS.maxConcurrentBuys)
NoLimit == FALSE
ConcurrencyReached == bot.activeBuys >= MaxConcurrentBuys

\* if (Date.now() - lastBuyTime < SETTINGS.cooldownMs)
NoCooldown == FALSE
InCooldown == bot.now - bot.lastBuyTime < CooldownTicks

sniperOpen ==
    /\ flow = "sniper"
    /\ Alive
    /\ bot.state = "connecting"
    /\ bot' = [bot EXCEPT !.state = "open", !.opened = @ + 1]
    /\ sent' = sent \cup {Control("subscribeNewToken")}
    /\ UNCHANGED <<main, flow, procs, loopVars, createVars, ws, dispatch, sched>>

\* ws.on("message"): try { JSON.parse; if (txType === "create") await
\* handleNewToken(message) } catch { log }.  handleNewToken and the start of
\* executeBuy (activeBuys++, the fetch) run without an await between them.
handleNewToken ==
    /\ flow = "sniper"
    /\ Alive
    /\ bot.state = "open"
    /\ bot.received < MaxEvents
    /\ UNCHANGED <<main, flow, loopVars, createVars, ws, dispatch, sched>>
    /\ \E event \in Events :
         LET heard == [bot EXCEPT !.received = @ + 1]
             skipped(why) == /\ bot' = [heard EXCEPT !.skip = why]
                             /\ UNCHANGED <<procs, sent>>
         IN  IF event.txType # "create" THEN skipped(bot.skip)
             ELSE IF ~event.creator
               THEN \* traderPublicKey.slice(0, 8) throws; the handler's catch logs
                    skipped(bot.skip)
             ELSE IF checkCriteria(event) # "pass" THEN skipped(bot.skip)
             ELSE IF ConcurrencyReached THEN skipped("limit")
             ELSE IF InCooldown THEN skipped("cooldown")
             ELSE \* await executeBuy(mint): activeBuys++; fetch(/api/trade-local).
                  \* The activations that have returned are forgotten here.
                  /\ bot' = [heard EXCEPT
                        !.activeBuys = @ + 1,
                        !.bought = event,
                        !.buys = @ + 1,
                        !.prevAttemptAt = bot.lastAttemptAt,
                        !.lastAttemptAt = bot.now,
                        !.sinceSuccess = IF bot.lastSuccessAt >= 0 THEN @ + 1 ELSE @]
                  /\ procs' = Append(SelectSeq(procs, LAMBDA q : q.out = "running"),
                                     [NewProc("executeBuy") EXCEPT !.pc = "fetch"])
                  /\ sent' = sent \cup {BuildRequest(ExecuteBuyCfg)}

\* if (confirmation.value.err) { log } else { lastBuyTime = Date.now() }
BuySent(p) == p.submitted
BuyConfirmed(p) == p.confirmed

\* The bot once activation p of executeBuy has ended: lastBuyTime = Date.now()
\* at a confirmation without error, and on every path finally activeBuys--.
DecrementAfterConfirmation(p) ==
    IF BuyConfirmed(p)
      THEN [bot EXCEPT !.activeBuys = @ - 1, !.lastBuyTime = bot.now,
                       !.lastSuccessAt = bot.now, !.sinceSuccess = 0]
      ELSE bot
ExecuteBuyEnded(p) ==
    LET after == IF BuyConfirmed(p)
                   THEN [bot EXCEPT !.lastBuyTime = bot.now,
                                    !.lastSuccessAt = bot.now,
                                    !.sinceSuccess = 0]
                   ELSE bot
    IN  [after EXCEPT !.activeBuys = @ - 1]

\* A continuation of an executeBuy activation.
executeBuy ==
    /\ flow = "sniper"
    /\ Alive
    /\ \E i \in DOMAIN procs :
         /\ SingleTx(i, ExecuteBuyCfg)
         /\ bot' = IF procs'[i].out = "running" THEN bot
                   ELSE ExecuteBuyEnded(procs'[i])
    /\ UNCHANGED <<main, flow, loopVars, createVars, ws, dispatch, sched>>

\* ws.on("close"): the handler only logs.
sniperClose ==
    /\ flow = "sniper"
    /\ Alive
    /\ bot.state \in {"connecting", "open"}
    /\ bot' = [bot EXCEPT !.state = AfterClose, !.closes = @ + 1]
    /\ UNCHANGED <<main, flow, procs, sent, loopVars, createVars, ws, dispatch, sched>>

\* process.on("SIGINT"): ws.close(); process.exit(0)
sniperSigint ==
    /\ flow = "sniper"
    /\ Alive
    /\ bot' = [bot EXCEPT !.state = "closed"]
    /\ main' = [main EXCEPT !.pc = "done", !.exit = 0]
    /\ UNCHANGED <<flow, procs, sent, loopVars, createVars, ws, dispatch, sched>>

sniperTick ==
    /\ flow = "sniper"
    /\ Alive
    /\ bot.now < CooldownTicks + MaxTime
    /\ bot' = [bot EXCEPT !.now = @ + 1]
    /\ UNCHANGED <<main, flow, procs, sent, loopVars, createVars, ws, dispatch, sched>>

(***************************************************************************)
(* The scripts' entry points: main() awaits the workflow function chosen   *)
(* in its body; what follows is main's own handling of a rejection.        *)
(***************************************************************************)

BuySellFlows == {"buyToken", "sellToken", "sellBundleFast"}
TransferFlows == {"transferSol", "transferAllSol", "batchTransfer"}
ClaimFeesFlows == {"claimFees", "distributeFees", "claimMultipleMints", "automatedClaiming"}

\* How the awaited workflow function settled.
WorkflowOut ==
    CASE flow \in SingleFlows -> procs[1].out
      [] flow \in LoopFlows -> loop.out
      [] flow \in CreateFlows -> create.out
      [] flow = "automatedClaiming" -> sched.out
      [] OTHER -> "running"

\* The status the process ends with once main has returned and nothing is
\* pending: 0, and no exit at all while the interval timer is armed.
ExitWhenIdle ==
    IF flow = "automatedClaiming" /\ sched.nextFire >= 0 THEN NotExited ELSE 0

\* process.exit(1) in main().catch of create-token.js
ExitInCatch == 1

\* async function main() { try { await workflow() } catch (err) {
\* console.error("Error:", err) } }   main();
TryCatchMain ==
    /\ main.pc = "running"
    /\ WorkflowOut # "running"
    /\ main' = [pc |-> "done", logged |-> WorkflowOut = "threw", exit |-> ExitWhenIdle]
    /\ UNCHANGED <<bot, flow, procs, sent, loopVars, createVars, ws, dispatch, sched>>

buySellMain == flow \in BuySellFlows /\ TryCatchMain

transferMain == flow \in TransferFlows /\ TryCatchMain

claimFeesMain == flow \in ClaimFeesFlows /\ TryCatchMain

\* main().catch((err) => { console.error(...); process.exit(1) })
createTokenMain ==
    /\ flow \in CreateFlows
    /\ main.pc = "running"
    /\ create.out # "running"
    /\ main' = IF create.out = "threw"
                 THEN [pc |-> "done", logged |-> TRUE, exit |-> ExitInCatch]
                 ELSE [pc |-> "done", logged |-> FALSE, exit |-> 0]
    /\ UNCHANGED <<bot, flow, procs, sent, loopVars, createVars, ws, dispatch, sched>>

(***************************************************************************)
(* Properties.                                                             *)
(***************************************************************************)

\* C1: in every workflow, no message handed to the PumpDev API, the WebSocket
\* server, the RPC endpoint or a Jito relay carries a locally held secret key:
\* every payload value is a public key, a request parameter or a signed
\* transaction.
C1_NoSecretKeyInPayload ==
    \A m \in sent : \A v \in m.payload :
        /\ v.kind # "secretKey"
        /\ v.kind \in {"publicKey", "param", "signedTx"}

\* C1 witness: a bundle of signed transactions has gone to a Jito relay after
\* the creator's and the buyers' public keys went to the API.
C1_Witness ==
    /\ flow = "createTokenWithMultipleBuyers"
    /\ \E m \in sent : m.to = "jito" /\ \E v \in m.payload : v.kind = "signedTx"
    /\ \E m \in sent : m.to = "api" /\ PublicKeyBase58(Key("buyer1", 0)) \in m.payload

\* C2 (as claimed): for every build endpoint, a non-200 response (with its JSON
\* error body) makes the workflow function return without throwing and without
\* signing or submitting any transaction.
C2_NonOkReturnsQuietly ==
    /\ \A i \in DOMAIN procs :
         (procs[i].http = "error" /\ procs[i].pc = "done") =>
             /\ procs[i].out = "returned"
             /\ procs[i].signers = {}
             /\ ~procs[i].submitted
    /\ (flow \in LoopFlows /\ loop.http = "error") =>
             (loop.out # "threw" /\ attempted = <<>>)
    /\ (flow \in CreateFlows /\ create.http = "error") =>
             (create.out # "threw" /\ signedTxs = <<>> /\ jito.idx = 0)

\* The entries of sellBundleFast's answer that carry a transaction.
WithTransaction == {i \in 1..Len(entries) : entries[i].transaction}

\* C3 (as claimed): sellBundleFast attempts sign-and-send for exactly the
\* entries that carry a transaction, and the count it reports is their number M.
C3_AttemptsAndReportsM ==
    (flow = "sellBundleFast" /\ loop.out = "returned" /\ loop.http = "ok") =>
        /\ Range(attempted) = WithTransaction
        /\ Len(loop.signatures) = Cardinality(WithTransaction)

\* C3 (amended): sellBundleFast attempts sign-and-send, once each and in the
\* order of the answer, for exactly the entries that carry a transaction and
\* name one of the given accounts; the count it reports is the number of those
\* attempts that did not fail, never more than M.
C3_AttemptsMatchedReportsSent ==
    (flow = "sellBundleFast" /\ loop.out = "returned" /\ loop.http = "ok") =>
        /\ attempted = SelectSeq([i \in 1..Len(entries) |-> i],
                                 LAMBDA i : /\ entries[i].transaction
                                            /\ entries[i].name \in 1..Len(entries))
        /\ failed \subseteq Range(attempted)
        /\ Len(loop.signatures) = Len(attempted) - Cardinality(failed)
        /\ Len(loop.signatures) <= Cardinality(WithTransaction)

\* C3 witness: M < N, an entry with a transaction names no account, another
\* one's send failed, and the function has returned a count below M.
C3_Witness ==
    /\ flow = "sellBundleFast" /\ loop.out = "returned" /\ loop.http = "ok"
    /\ Cardinality(WithTransaction) < Len(entries)
    /\ \E i \in WithTransaction : entries[i].name = 0
    /\ failed # {}
    /\ Len(loop.signatures) < Cardinality(WithTransaction)

MultiBuyer == flow = "createTokenWithMultipleBuyers"

\* C4: in the multi-buyer flow, a transaction whose declared roles all resolve
\* (wallet map or mint) is signed with one keypair per distinct declared role:
\* the set of keypairs applied has as many members as there are distinct roles.
C4_OneKeypairPerRole ==
    MultiBuyer =>
        \A k \in 1..Len(signedTxs) :
            LET declared == Range(txs[signedTxs[k].tx])
                applied == Range(signedTxs[k].signers)
            IN  declared \subseteq WalletRoles \cup {"mint"} =>
                    /\ Cardinality(applied) = Cardinality(declared)
                    /\ applied = {Keypair(r) : r \in declared}

\* C4 witness: a transaction declaring creator and mint and one declaring the
\* creator twice have both been signed.
C4_Witness ==
    /\ MultiBuyer
    /\ Len(signedTxs) = 2
    /\ txs[1] = <<"creator", "mint">>
    /\ txs[2] = <<"creator", "creator">>

\* The keypairs of the declared roles that the wallet map or the mint supply.
KnownKeypairs(signers) ==
    [i \in 1..Len(SelectSeq(signers, LAMBDA r : r \in WalletRoles \cup {"mint"})) |->
        Keypair(SelectSeq(signers, LAMBDA r : r \in WalletRoles \cup {"mint"})[i])]

Submitted == jito.idx >= 1

\* C5 (as claimed): in the multi-buyer flow a declared role absent from the
\* wallet map raises no error: it is dropped, the transaction is signed with
\* the remaining roles and is still in the bundle submitted to the relay.
C5_AbsentRoleDropped ==
    MultiBuyer =>
        /\ create.err # "sign"
        /\ Submitted =>
             /\ Len(signedTxs) = Len(txs)
             /\ \A i \in 1..Len(txs) : signedTxs[i].signers = KnownKeypairs(txs[i])
             /\ BundleRequest(1, signedTxs) \in sent

\* C5 (amended): signing raises an error only for a role that names a property
\* the wallet map inherits; any other role absent from the wallet map is
\* dropped, the transaction is signed with the remaining roles and is still in
\* the bundle submitted to the relay.
C5_AbsentRoleDroppedUnlessInherited ==
    MultiBuyer =>
        /\ create.err = "sign" =>
             \E i \in 1..Len(txs) : Range(txs[i]) \cap InheritedNames # {}
        /\ Submitted =>
             /\ Len(signedTxs) = Len(txs)
             /\ \A i \in 1..Len(txs) : signedTxs[i].signers = KnownKeypairs(txs[i])
             /\ BundleRequest(1, signedTxs) \in sent

\* C5 witness: a bundle was submitted whose second transaction declared the
\* creator and the absent role buyer4 and was signed by the creator alone.
C5_Witness ==
    /\ MultiBuyer /\ Submitted
    /\ Len(txs) = 2
    /\ txs[2] = <<"creator", "buyer4">>
    /\ signedTxs[2].signers = <<Keypair("creator")>>

Handled == flow = "websocket" /\ dispatch.frame.json # "none"

SystemFrame == dispatch.frame.json = "object" /\ dispatch.frame.type \in SystemTypes

TradeFrame ==
    /\ dispatch.frame.json = "object"
    /\ dispatch.frame.type \notin SystemTypes
    /\ dispatch.frame.txType \in {"create", "buy", "sell"}

TradeHandlerOf(txType) ==
    CASE txType = "create" -> "newToken" [] txType = "buy" -> "buy" [] txType = "sell" -> "sell"

DispatchedOnce ==
    /\ SystemFrame => dispatch.shown = <<Display("system", dispatch.frame.type)>>
    /\ TradeFrame =>
         dispatch.shown = <<Display(TradeHandlerOf(dispatch.frame.txType), dispatch.frame.mint)>>

\* C6 (as claimed): every received frame is dispatched exactly once: a system
\* type goes to the system handler only, a frame with txType create, buy or
\* sell gives exactly one display carrying its mint, and a frame of any other
\* shape gives no display and no error.
C6_OtherShapeNoError ==
    Handled =>
        /\ DispatchedOnce
        /\ (~SystemFrame /\ ~TradeFrame) => (dispatch.shown = <<>> /\ ~dispatch.error)

\* C6 (amended): as claimed, except that a frame of any other shape, while it
\* gives no display, gives a logged parse error exactly when it is not valid
\* JSON or is the JSON value null.
C6_OtherShapeErrorOnlyUnparsed ==
    Handled =>
        /\ DispatchedOnce
        /\ (~SystemFrame /\ ~TradeFrame) =>
             /\ dispatch.shown = <<>>
             /\ dispatch.error <=> dispatch.frame.json \in {"malformed", "null"}

\* C6 witness: a frame with a system type that also carries txType create
\* has gone to the system handler alone.
C6_Witness ==
    /\ Handled
    /\ dispatch.frame.type = "subscribed" /\ dispatch.frame.txType = "create"
    /\ dispatch.shown = <<Display("system", "subscribed")>>

\* C7 (as claimed): automatedClaiming runs the claim once immediately, once
\* more one interval later and once per further interval, none skipped or
\* duplicated, as long as runs do not overlap: after the immediate run has
\* ended, the number of runs started is one plus the whole intervals elapsed.
C7_OncePerInterval ==
    (flow = "automatedClaiming" /\ sched.alive /\ ~sched.overlapped
        /\ sched.firstEndedAt >= 0) =>
        sched.invoked = 1 + ((sched.now - sched.firstEndedAt) \div IntervalTicks)

\* C8: sendJitoBundle contacts the endpoints in list order, each at most once,
\* stops at the first endpoint whose answer carries a result, and reports
\* failure only after every endpoint of the list has been tried.
C8_EndpointsInOrder ==
    flow \in CreateFlows =>
        /\ jito.idx <= NumJitoEndpoints
        /\ jito.contacted = [k \in 1..jito.idx |-> k]
        /\ {m.what : m \in {x \in sent : x.to = "jito"}} = Range(jito.contacted)
        /\ Len(jito.answers) \in {jito.idx - 1, jito.idx}
        /\ \A k \in 1..Len(jito.answers) :
             jito.answers[k] = "result" =>
                 (k = jito.idx /\ jito.res = "success" /\ jito.bundleId = k)
        /\ jito.res = "success" =>
             (Len(jito.answers) = jito.idx /\ jito.answers[jito.idx] = "result")
        /\ jito.res = "failure" =>
             (jito.idx = NumJitoEndpoints /\ Len(jito.answers) = NumJitoEndpoints)
        /\ jito.res = "none" => create.pc # "afterBundle"

\* C8 witness: two endpoints failed, the third answered with a result and the
\* function returned success.
C8_Witness ==
    /\ flow \in CreateFlows
    /\ jito.res = "success"
    /\ jito.contacted = <<1, 2, 3>>
    /\ jito.answers = <<"throws", "error", "result">>

\* C9: the loops are strictly sequential: at most one network call is in
\* flight at any instant, it belongs to the entry being processed, and the
\* entries are taken in input order, none before the previous one's awaited
\* steps are over.
C9_Sequential ==
    flow \in LoopFlows =>
        /\ Cardinality(inflight) <= 1
        /\ \A c \in inflight : c.entry = loop.idx
        /\ visited = [k \in 1..Len(visited) |-> k]
        /\ (loop.out = "running" /\ loop.idx >= 1) =>
              Len(visited) \in {loop.idx - 1, loop.idx}

\* C9 witness: the second recipient's call is in flight after the first
\* recipient's steps have all settled.
C9_Witness ==
    /\ flow = "batchTransfer"
    /\ loop.idx = 2
    /\ inflight = {Call(2, "fetch")}
    /\ loop.successCount = 1

\* C10: in the batch flows a failure while deserializing, signing, sending or
\* confirming one entry does not abort the loop: once the loop has begun, the
\* function never throws, and it returns only after every entry was taken up.
C10_FailureDoesNotAbort ==
    (flow \in LoopFlows /\ loop.idx >= 1) =>
        /\ loop.out # "threw"
        /\ loop.out = "returned" => visited = [k \in 1..Len(entries) |-> k]

\* C10 witness: the first entry failed, a later entry was attempted and the
\* function returned.
C10_Witness ==
    /\ flow \in LoopFlows
    /\ loop.out = "returned"
    /\ 1 \in failed
    /\ \E i \in Range(attempted) : i > 1 /\ i \notin failed

\* A deserialization or signing exception left the workflow function.
FaultRaised ==
    \/ flow \in SingleFlows /\ procs[1].out = "threw"
         /\ procs[1].err \in {"deserialize", "sign"}
    \/ flow \in CreateFlows /\ create.out = "threw"
         /\ create.err \in {"deserialize", "sign"}

\* C11 (as claimed): in every CLI entry point (buy-sell, claim-fees, transfer,
\* create-token) a deserialization or signing exception raised in a workflow
\* reaches the top-level catch, which logs it and makes the process exit with
\* a non-zero status.
C11_FaultExitsNonZero ==
    (flow \in BuySellFlows \cup TransferFlows \cup ClaimFeesFlows \cup CreateFlows
        /\ main.pc = "done" /\ FaultRaised) =>
        (main.logged /\ main.exit >= 1)

SentBeforeClose(method) ==
    \E i \in 1..(Len(ws.log) - 1) : ws.log[i] = method

IsSubscribe(method) ==
    method \in {"subscribeNewToken", "subscribeTokenTrade", "subscribeAccountTrade"}

\* C13: the listening session never reconnects: once the socket has closed,
\* the client opens no new connection and sends no further subscribe message
\* for the rest of the process lifetime.
C13_NoReconnect ==
    /\ flow = "websocket" =>
        /\ ws.opened <= 1 /\ ws.closes <= 1
        /\ ws.closes = 1 => ws.state = "closed"
        /\ SelectSeq(ws.log, IsSubscribe) = IF ws.opened = 1 THEN Subscriptions ELSE <<>>
        /\ Cardinality({m \in sent : m.to = "ws" /\ IsSubscribe(m.what)})
              <= Len(Subscriptions)
    /\ flow = "sniper" =>
        /\ bot.opened <= 1 /\ bot.closes <= 1
        /\ bot.closes = 1 => bot.state = "closed"
        /\ Cardinality({m \in sent : m.to = "ws"}) = bot.opened

\* C13 witness: the server closed an open socket and the process is still
\* alive (its shutdown timer is pending) with the socket closed.
C13_Witness ==
    /\ flow = "websocket"
    /\ ws.opened = 1 /\ ws.closes = 1
    /\ ws.timers # {} /\ ws.elapsed >= 1
    /\ Alive

\* C14 (as claimed): in batchTransfer the 500 ms delay lies between every two
\* consecutive transfers: whatever the outcome of a recipient, the delay has
\* elapsed before the build request of the next recipient is issued.
C14_DelayBetweenEveryPair ==
    flow = "batchTransfer" =>
        \A k \in Range(visited) : k >= 2 => (k - 1) \in Range(loop.delays)

\* C15: the scheduler has no skip-if-running guard: every interval tick starts
\* a new claim whether or not an earlier one is still running, so the number
\* of claims started is one plus the whole intervals elapsed since the timer
\* was armed, and two claims can be in flight at once.
C15_EveryTickStartsClaim ==
    (flow = "automatedClaiming" /\ sched.out = "returned" /\ sched.alive) =>
        /\ sched.invoked = 1 + ((sched.now - sched.firstEndedAt) \div IntervalTicks)
        /\ Len(procs) = sched.invoked

\* C15 witness: a tick has started a claim while the claim of the previous
\* tick was still running: two claim workflows are in flight.
C15_Witness ==
    /\ flow = "automatedClaiming"
    /\ sched.overlapped
    /\ Cardinality(Running) >= 2

\* C16: in the sniper bot the number of buys in flight never exceeds
\* maxConcurrentBuys, whatever the interleaving of create events with the
\* pending calls of earlier buys; activeBuys counts exactly the buys in flight.
C16_ActiveBuysBounded ==
    flow = "sniper" =>
        /\ bot.activeBuys <= MaxConcurrentBuys
        /\ bot.activeBuys = Cardinality(Running)

\* C16 witness: a create event that passes the filter arrived while a buy was
\* pending and was skipped for the limit.
C16_Witness ==
    /\ flow = "sniper"
    /\ bot.activeBuys = MaxConcurrentBuys
    /\ bot.skip = "limit"
    /\ bot.buys = 1

\* C17 (as claimed): after a buy attempt has been made, no further buy attempt
\* starts until cooldownMs has elapsed, whatever the outcome of the buy.
C17_CooldownBetweenAttempts ==
    (flow = "sniper" /\ bot.prevAttemptAt >= 0) =>
        bot.lastAttemptAt - bot.prevAttemptAt >= CooldownTicks

\* C17 (amended): after a buy has been confirmed without error, no further buy
\* attempt starts until cooldownMs has elapsed since that confirmation.
C17_CooldownAfterConfirmedBuy ==
    (flow = "sniper" /\ bot.sinceSuccess > 0) =>
        bot.lastAttemptAt - bot.lastSuccessAt >= CooldownTicks

\* C17 witness: a buy was confirmed and the next buy started when the cooldown
\* had just elapsed.
C17_Witness ==
    /\ flow = "sniper"
    /\ bot.sinceSuccess = 1
    /\ bot.lastAttemptAt = bot.lastSuccessAt + CooldownTicks

\* C18 (as claimed): the bot executes a buy only for create events whose market
\* cap is below maxMarketCapSol: not at or above the limit, and not unknown.
C18_BuysBelowLimitOnly ==
    (flow = "sniper" /\ bot.buys > 0) =>
        (bot.bought.cap # Missing /\ bot.bought.cap < MaxMarketCapSol)

\* C19 (as claimed): the bot executes a buy only for create events whose
\* solAmount is at least minInitialBuySol: not smaller, and not missing.
C19_BuysAtLeastMinOnly ==
    (flow = "sniper" /\ bot.buys > 0) =>
        (bot.bought.sol # Missing /\ bot.bought.sol >= MinInitialBuyTenths)

\* C20: when /api/create or /api/create-bundle answers with a non-200 status,
\* the create workflow throws before it decodes the mint key or any
\* transaction of the answer: nothing is signed, no bundle or transaction is
\* submitted, and main's catch logs the error and ends the process with
\* status 1.
C20_CreateNonOkThrows ==
    (flow \in CreateFlows /\ create.http \in {"error", "errorNotJson"}) =>
        /\ create.pc \in {"json", "done"}
        /\ create.pc = "done" => (create.out = "threw" /\ create.err \in {"status", "parse"})
        /\ ~create.decoded
        /\ signedTxs = <<>>
        /\ jito.idx = 0
        /\ \A m \in sent : m.to \notin {"jito", "rpc"}
        /\ main.pc = "done" => (main.logged /\ main.exit = 1)

\* C20 witness: /api/create-bundle answered with an error status and its JSON
\* error body, the function threw and the process ended with status 1.
C20_Witness ==
    /\ flow = "createTokenWithMultipleBuyers"
    /\ create.http = "error"
    /\ create.err = "status"
    /\ main.exit = 1

\* C21: in the create + dev buy bundle path (createTokenWithDevBuyJito and the
\* older script's createTokenWithDevBuy) every signed transaction carries the
\* creator's signature, carries the mint's signature exactly when its declared
\* signer list contains "mint", and carries no other signature whatever other
\* roles the list declares; once the bundle is submitted every returned
\* transaction has been signed so.
C21_CreatorAndMintOnly ==
    flow \in DevBuyBundleFlows =>
        /\ \A k \in 1..Len(signedTxs) :
              LET declared == Range(txs[signedTxs[k].tx])
                  applied == Range(signedTxs[k].signers)
              IN  /\ Keypair("creator") \in applied
                  /\ Keypair("mint") \in applied <=> "mint" \in declared
                  /\ applied \subseteq {Keypair("creator"), Keypair("mint")}
        /\ Submitted =>
              /\ Len(signedTxs) = Len(txs)
              /\ \A k \in 1..Len(txs) : signedTxs[k].tx = k

\* C21 witness: a bundle of the older script was submitted whose first
\* transaction declared creator and mint and whose second declared two buyers
\* and was signed by the creator alone.
C21_Witness ==
    /\ flow = OlderDevBuy /\ Submitted
    /\ Len(txs) = 2
    /\ txs[1] = <<"creator", "mint">>
    /\ txs[2] = <<"buyer2", "buyer3">>
    /\ signedTxs[1].signers = <<Keypair("creator"), Keypair("mint")>>
    /\ signedTxs[2].signers = <<Keypair("creator")>>

\* C22: the WebSocket client sends subscribe messages only in its open
\* handler, once, in the order subscribeNewToken (always), subscribeTokenTrade
\* (exactly when TOKEN_MINTS is non-empty), subscribeAccountTrade (exactly when
\* WATCH_WALLETS is non-empty): none before the socket has opened, and none
\* after another control message or the close.
C22_SubscribeOnOpenInOrder ==
    flow = "websocket" =>
        LET subs == SelectSeq(ws.log, IsSubscribe)
            expected ==
                <<"subscribeNewToken">>
                  \o (IF ws.tokenMints THEN <<"subscribeTokenTrade">> ELSE <<>>)
                  \o (IF ws.watchWallets THEN <<"subscribeAccountTrade">> ELSE <<>>)
            onWire == {m.what : m \in {c \in sent : c.to = "ws" /\ IsSubscribe(c.what)}}
        IN  /\ ws.opened = 0 => (subs = <<>> /\ onWire = {})
            /\ ws.opened >= 1 => (subs = expected /\ onWire = Range(expected))
            /\ SubSeq(ws.log, 1, Len(subs)) = subs
            /\ ws.state = "connecting" => ws.log = <<>>

\* C22 witness: with token mints configured and no wallets, the socket opened,
\* closed, and a SIGINT arrived afterwards; the log holds the two subscribes
\* followed by the unsubscribes.
C22_Witness ==
    /\ flow = "websocket"
    /\ ws.tokenMints /\ ~ws.watchWallets
    /\ ws.state = "closed" /\ ws.closes = 1 /\ ws.sigints = 1
    /\ ws.log = <<"subscribeNewToken", "subscribeTokenTrade",
                  "unsubscribeNewToken", "unsubscribeTokenTrade">>

\* The executeBuy activations that have not returned.
InFlight == {i \in DOMAIN procs : procs[i].out = "running"}

\* C23: in the sniper bot activeBuys counts the executeBuy activations in
\* flight: it is incremented once when one starts and decremented once when
\* one ends, on every exit path (API error, exception, failed confirmation,
\* confirmation), so it is never negative and is 0 whenever none is in flight.
C23_ActiveBuysCountsInFlight ==
    flow = "sniper" =>
        /\ bot.activeBuys >= 0
        /\ bot.activeBuys = Cardinality(InFlight)
        /\ InFlight = {} => bot.activeBuys = 0

\* C23 witness: two buys have started and both have ended, the second one on
\* an API error answer, and activeBuys is back to 0.
C23_Witness ==
    /\ flow = "sniper"
    /\ bot.buys = 2 /\ bot.activeBuys = 0
    /\ Len(procs) = 1
    /\ procs[1].out = "returned" /\ procs[1].http = "error"

\* C24: in the sniper bot lastBuyTime changes only in the step in which a
\* buy's confirmation arrives without error, and then becomes the current
\* time; a skipped event, an API error, an exception or a failed confirmation
\* leaves it unchanged.
C24_LastBuyTimeOnlyOnSuccess ==
    [][(flow = "sniper" /\ bot'.lastBuyTime # bot.lastBuyTime) =>
         /\ \E i \in DOMAIN procs :
               /\ procs[i].pc = "confirmTransaction"
               /\ procs'[i].pc = "done"
               /\ procs'[i].confirmed /\ procs'[i].err = "none"
         /\ bot'.lastBuyTime = bot.now]_vars

\* C24 witness: a buy was confirmed, a tick later a second buy ended on a
\* failed confirmation, and lastBuyTime is still the time of the first.
C24_Witness ==
    /\ flow = "sniper"
    /\ bot.buys = 2 /\ bot.activeBuys = 0
    /\ Len(procs) = 1 /\ procs[1].err = "confirmation"
    /\ bot.lastBuyTime = bot.lastSuccessAt
    /\ bot.lastBuyTime > 0 /\ bot.lastBuyTime < bot.lastAttemptAt

\* The create functions that sign result.transactions and send them as a bundle.
BundleFlows == DevBuyBundleFlows \cup {"createTokenWithMultipleBuyers"}

\* C25: the bundle the create workflows hand to sendJitoBundle holds one signed
\* transaction for each transaction the API returned, in the order returned
\* (none dropped, duplicated or reordered), and that same bundle is what every
\* relay contacted receives; createTokenOnly hands over its one transaction.
C25_BundleMatchesAnswer ==
    /\ (flow \in BundleFlows /\ Submitted) =>
          /\ Len(signedTxs) = Len(txs)
          /\ \A k \in 1..Len(signedTxs) : signedTxs[k].tx = k
    /\ (flow = "createTokenOnly" /\ Submitted) =>
          (Len(signedTxs) = 1 /\ signedTxs[1].tx = 1)
    /\ flow \in CreateFlows =>
          {m \in sent : m.to = "jito"} =
              {BundleRequest(k, signedTxs) : k \in 1..jito.idx}

\* C25 witness: the API returned two transactions with different signer lists
\* and the bundle has gone to a second relay after the first refused it.
C25_Witness ==
    /\ flow = "createTokenWithMultipleBuyers"
    /\ jito.idx = 2
    /\ txs = <<<<"creator", "mint">>, <<"buyer1">>>>
    /\ signedTxs[1].signers = <<Keypair("creator"), Keypair("mint")>>
    /\ signedTxs[2].signers = <<Keypair("buyer1")>>

\* C26: sendJitoBundle never throws: from its call until it returns the caller
\* is still running; a fetch or response.json() that throws and an answer with
\* neither result nor error are followed by the request to the next endpoint
\* of the list; it hears at most one answer per endpoint and returns either
\* success with the bundle id of the endpoint that answered with a result, or
\* the failure object once every endpoint has answered without one.
C26_SendJitoBundleNeverThrows ==
    (flow \in CreateFlows /\ Submitted) =>
        /\ jito.res = "none" => (create.pc = "sendJitoBundle" /\ create.out = "running")
        /\ jito.res # "none" => create.pc # "sendJitoBundle"
        /\ Len(jito.answers) <= NumJitoEndpoints
        /\ \A k \in 1..Len(jito.answers) :
              (jito.answers[k] \in {"throws", "neither"} /\ k < NumJitoEndpoints) =>
                  /\ Len(jito.contacted) > k
                  /\ BundleRequest(k + 1, signedTxs) \in sent
        /\ jito.res = "success" => jito.bundleId = Len(jito.answers)
        /\ jito.res = "failure" =>
              /\ Len(jito.answers) = NumJitoEndpoints
              /\ \A k \in 1..NumJitoEndpoints : jito.answers[k] # "result"

\* C26 witness: every endpoint was tried, the fetches and parses threw or the
\* answers held neither result nor error, and the function returned the
\* failure object to a caller that went on to return.
C26_Witness ==
    /\ flow = "createTokenWithDevBuyJito"
    /\ jito.res = "failure"
    /\ jito.answers = <<"throws", "neither", "throws", "neither", "throws">>
    /\ create.out = "returned"

InitSingle ==
    /\ flow \in SingleFlows
    /\ procs = <<NewProc(flow)>>
    /\ entries = <<>>
    /\ txs = <<>>

InitCreate ==
    /\ flow \in CreateFlows
    /\ procs = <<>>
    /\ entries = <<>>
    /\ txs \in (IF flow \in DevBuyBundleFlows \cup {"createTokenWithMultipleBuyers"}
                  THEN TxLists ELSE {<<>>})

InitLoop ==
    /\ flow \in LoopFlows
    /\ procs = <<>>
    /\ \E n \in 0..MaxEntries :
         entries \in (CASE flow = "sellBundleFast" -> SellEntries(n)
                        [] flow = "claimMultipleMints" -> ClaimEntries(n)
                        [] OTHER -> Recipients(n))
    /\ txs = <<>>

InitOther ==
    /\ flow \in {"websocket", "automatedClaiming", "sniper"}
    /\ procs = <<>>
    /\ entries = <<>>
    /\ txs = <<>>

Init ==
    /\ InitSingle \/ InitLoop \/ InitCreate \/ InitOther
    /\ ws \in [state : {"connecting"}, tokenMints : BOOLEAN, watchWallets : BOOLEAN,
               log : {<<>>}, received : {0}, opened : {0}, closes : {0},
               sigints : {0}, elapsed : {0}, timers : {{}},
               acked : {FALSE}]
    /\ (flow # "websocket") => (~ws.tokenMints /\ ~ws.watchWallets)
    /\ dispatch = NewDispatch
    /\ sched = NewSched
    /\ main = NewMain
    /\ bot = NewBot
    /\ create = NewCreate
    /\ signedTxs = <<>>
    /\ jito = NewJito
    /\ sent = {}
    /\ loop = NewLoop
    /\ inflight = {}
    /\ attempted = <<>>
    /\ visited = <<>>
    /\ failed = {}

Next ==
    \/ buyToken
    \/ sellToken
    \/ transferSol
    \/ transferAllSol
    \/ claimFees
    \/ distributeFees
    \/ sellBundleFast
    \/ batchTransfer
    \/ claimMultipleMints
    \/ createTokenOnly
    \/ createTokenWithDevBuy
    \/ createTokenWithDevBuyJito
    \/ olderCreateTokenWithDevBuy
    \/ createTokenWithMultipleBuyers
    \/ sendJitoBundle
    \/ wsOpen
    \/ wsMessage
    \/ wsClose
    \/ wsSigint
    \/ wsShutdown
    \/ wsTick
    \/ sniperOpen
    \/ handleNewToken
    \/ executeBuy
    \/ sniperClose
    \/ sniperSigint
    \/ sniperTick
    \/ automatedClaiming
    \/ scheduledClaimFees
    \/ unhandledRejection
    \/ Tick
    \/ intervalCallback
    \/ buySellMain
    \/ transferMain
    \/ claimFeesMain
    \/ createTokenMain

Spec == Init /\ [][Next]_vars

====
